---- MODULE Spec2Model ----
(***************************************************************************)
(* Model of src/main.py: a Flask application that stores uploaded images   *)
(* in a Cloud Storage bucket, asks the Gemini service for a caption, and   *)
(* stores the caption as a JSON sidecar blob next to the image.            *)
(*                                                                         *)
(* Text (file names, blob contents, response text, titles) is modelled as  *)
(* sequences of one-character strings, so that suffix tests, splitting,    *)
(* trimming and JSON encoding are computed the way the code computes them. *)
(* The bucket is a function from the keys that exist to their contents.    *)
(* Optional values (None in the code) are sequences of length 0 or 1.      *)
(***************************************************************************)
EXTENDS Integers, Sequences, FiniteSets, TLC

VARIABLES store, req, lastIngest, ptext, pcap

vars == <<store, req, lastIngest, ptext, pcap>>

----------------------------------------------------------------------------
(* Bounds *)

\* Longest response text drawn in the specification of the caption parser.
MaxLen == 5

----------------------------------------------------------------------------
(* String literals of the source *)

UploadFailedTitle == <<"U", "p", "l", "o", "a", "d", " ", "F", "a", "i", "l", "e", "d">>
UploadFailedDescription == <<"C", "o", "u", "l", "d", " ", "n", "o", "t", " ", "g", "e", "n", "e", "r", "a", "t", "e", " ", "d", "e", "s", "c", "r", "i", "p", "t", "i", "o", "n", " ", "d", "u", "e", " ", "t", "o", " ", "u", "p", "l", "o", "a", "d", " ", "e", "r", "r", "o", "r", ".">>
ErrorTitle == <<"E", "r", "r", "o", "r">>
ErrorDescription == <<"A", "n", " ", "e", "r", "r", "o", "r", " ", "o", "c", "c", "u", "r", "r", "e", "d", " ", "w", "h", "i", "l", "e", " ", "g", "e", "n", "e", "r", "a", "t", "i", "n", "g", " ", "t", "h", "e", " ", "d", "e", "s", "c", "r", "i", "p", "t", "i", "o", "n", ".">>
GeneratedTitle == <<"G", "e", "n", "e", "r", "a", "t", "e", "d", " ", "T", "i", "t", "l", "e">>
NoTitle == <<"N", "o", " ", "T", "i", "t", "l", "e">>
NoDescription == <<"N", "o", " ", "d", "e", "s", "c", "r", "i", "p", "t", "i", "o", "n", " ", "a", "v", "a", "i", "l", "a", "b", "l", "e", ".">>
Delimiter == <<".", " ">>
DotJson == <<".", "j", "s", "o", "n">>
DotJpeg == <<".", "j", "p", "e", "g">>
DotJpg == <<".", "j", "p", "g">>

\* The characters str.strip() removes, among the characters of the model.
Whitespace == {" ", "\n"}

\* The text json.dump writes around the two values of the metadata dict.
JsonTitleOpen == <<"{", "\"", "t", "i", "t", "l", "e", "\"", ":", " ", "\"">>
JsonDescriptionOpen == <<",", " ", "\"", "d", "e", "s", "c", "r", "i", "p", "t", "i", "o", "n", "\"", ":", " ", "\"">>
JsonClose == <<"}">>
Quote == "\""
Backslash == "\\"

----------------------------------------------------------------------------
(* Python string operations used by the source *)

\* s[i:] for a 1-based i.
Drop(s, i) == SubSeq(s, i, Len(s))

\* s occurs in t starting at position i.
OccursAt(s, t, i) ==
    /\ i >= 1
    /\ i + Len(s) - 1 <= Len(t)
    /\ SubSeq(t, i, i + Len(s) - 1) = s

\* str.endswith
endswith(s, suffix) == OccursAt(suffix, s, Len(s) - Len(suffix) + 1)

\* sub in s
contains(s, sub) == \E i \in 1..Len(s) : OccursAt(sub, s, i)

\* str.find, 1-based; only used when sub occurs in s.
find(s, sub) == CHOOSE i \in 1..Len(s) :
    /\ OccursAt(sub, s, i)
    /\ \A j \in 1..(i - 1) : ~OccursAt(sub, s, j)

\* str.rfind, 1-based; only used when sub occurs in s.
rfind(s, sub) == CHOOSE i \in 1..Len(s) :
    /\ OccursAt(sub, s, i)
    /\ \A j \in (i + 1)..Len(s) : ~OccursAt(sub, s, j)

RECURSIVE lstrip(_)
lstrip(s) ==
    IF s # <<>> /\ Head(s) \in Whitespace THEN lstrip(Tail(s)) ELSE s

RECURSIVE rstrip(_)
rstrip(s) ==
    IF s # <<>> /\ s[Len(s)] \in Whitespace
    THEN rstrip(SubSeq(s, 1, Len(s) - 1))
    ELSE s

\* str.strip()
strip(s) == rstrip(lstrip(s))

\* s.split(sep, 1) when sep occurs in s: the parts around the first sep.
split_first(s, sep) ==
    LET i == find(s, sep)
    IN  <<SubSeq(s, 1, i - 1), Drop(s, i + Len(sep))>>

\* s.rsplit(sep, 1)[0]: s up to the last sep, or all of s without a sep.
rsplit_head(s, sep) ==
    IF contains(s, sep) THEN SubSeq(s, 1, rfind(s, sep) - 1) ELSE s

\* filename.rsplit('.', 1)[0] + ".json"
json_filename(filename) == rsplit_head(filename, <<".">>) \o DotJson

----------------------------------------------------------------------------
(* json.dump and json.load on the metadata dict *)

\* The escape json.dump writes for one character of a string.
EscapeChar(c) ==
    IF c = Quote THEN <<Backslash, Quote>>
    ELSE IF c = Backslash THEN <<Backslash, Backslash>>
    ELSE IF c = "\n" THEN <<Backslash, "n">>
    ELSE <<c>>

\* The escapes of the characters of s, one after the other.  start[i] is
\* the position in the output of the escape of s[i].
EscapeString(s) ==
    LET n == Len(s)
        wide == { i \in 1..n : Len(EscapeChar(s[i])) = 2 }
        start == [i \in 1..n |-> i + Cardinality({ j \in wide : j < i })]
        source == [k \in 1..(n + Cardinality(wide)) |->
                    CHOOSE i \in 1..n :
                        start[i] <= k /\ k < start[i] + Len(EscapeChar(s[i]))]
    IN  IF wide = {} THEN s
        ELSE [k \in 1..(n + Cardinality(wide)) |->
                EscapeChar(s[source[k]])[k - start[source[k]] + 1]]

\* json.dump that writes the strings without escaping them.
json_dump_raw(metadata) ==
    JsonTitleOpen \o metadata.title \o <<Quote>>
        \o JsonDescriptionOpen \o metadata.description
        \o <<Quote>> \o JsonClose

\* json.dump({"title": t, "description": d}, f): the text written.
json_dump(metadata) ==
    JsonTitleOpen \o EscapeString(metadata.title) \o <<Quote>>
        \o JsonDescriptionOpen \o EscapeString(metadata.description)
        \o <<Quote>> \o JsonClose

ScanFail == [ok |-> FALSE, val |-> <<>>, end |-> 0]

\* The number of backslashes in s that stand directly before position j,
\* looking no further back than position lo.
RECURSIVE BackslashRun(_, _, _)
BackslashRun(s, lo, j) ==
    IF j - 1 >= lo /\ s[j - 1] = Backslash
    THEN 1 + BackslashRun(s, lo, j - 1)
    ELSE 0

\* The character an escape sequence \c stands for.
Unescape(c) == IF c = "n" THEN "\n" ELSE c

\* The body of a JSON string, between its quotes: the characters it
\* stands for, or a failure on a control character or an unknown escape.
\* A position of the body starts a character unless it is the second
\* character of an escape; at lists these positions in order.
scanbody(raw) ==
    LET n == Len(raw)
        IsStart(k) == BackslashRun(raw, 1, k) % 2 = 0
        at == SelectSeq([k \in 1..n |-> k], IsStart)
        valid == \A k \in 1..n :
                    IsStart(k) =>
                        /\ raw[k] # "\n"
                        /\ raw[k] = Backslash =>
                            /\ k + 1 <= n
                            /\ raw[k + 1] \in {Quote, Backslash, "n"}
        Decode(k) == IF raw[k] = Backslash THEN Unescape(raw[k + 1])
                     ELSE raw[k]
    IN  IF ~valid THEN ScanFail
        ELSE [ok |-> TRUE, end |-> 0,
              val |-> IF Len(at) = n THEN raw
                      ELSE [m \in 1..Len(at) |-> Decode(at[m])]]

\* The JSON string scanner: s is read from position i, just after the
\* opening quote, up to the first quote that no backslash escapes; end is
\* the position after that quote.
scanstring(s, i) ==
    LET closing == { j \in i..Len(s) :
                        s[j] = Quote /\ BackslashRun(s, i, j) % 2 = 0 }
        e == CHOOSE j \in closing : \A k \in closing : j <= k
    IN  IF closing = {} THEN ScanFail
        ELSE [scanbody(SubSeq(s, i, e - 1)) EXCEPT !.end = e + 1]

json_load_end(s, t, d) ==
    IF d.ok /\ Drop(s, d.end) = JsonClose
    THEN <<[title |-> t.val, description |-> d.val]>>
    ELSE <<>>

json_load_rest(s, t) ==
    IF ~t.ok \/ ~OccursAt(JsonDescriptionOpen, s, t.end) THEN <<>>
    ELSE json_load_end(s, t, scanstring(s, t.end + Len(JsonDescriptionOpen)))

\* json.load(f) on a blob: <<metadata>> for the text of a metadata dict,
\* <<>> when the decoder raises.
json_load(s) ==
    IF ~OccursAt(JsonTitleOpen, s, 1) THEN <<>>
    ELSE json_load_rest(s, scanstring(s, Len(JsonTitleOpen) + 1))

----------------------------------------------------------------------------
(* The caption parser of generate_gemini_caption *)

UploadFailedCaption ==
    [title |-> UploadFailedTitle, description |-> UploadFailedDescription]

ErrorCaption == [title |-> ErrorTitle, description |-> ErrorDescription]

DefaultMetadata == [title |-> NoTitle, description |-> NoDescription]

ParseCaptionLast(text) ==
    LET result_text == strip(text)
    IN  IF contains(result_text, Delimiter)
        THEN LET i == rfind(result_text, Delimiter)
             IN  [title |-> strip(SubSeq(result_text, 1, i - 1)),
                  description |-> strip(Drop(result_text, i + 2))]
        ELSE [title |-> strip(GeneratedTitle),
              description |-> strip(result_text)]

\* Lines 95-101: trim the text, split it on the first ". ", trim both parts.
ParseCaption(text) ==
    LET result_text == strip(text)
        parts == IF contains(result_text, Delimiter)
                 THEN split_first(result_text, Delimiter)
                 ELSE <<GeneratedTitle, result_text>>
    IN  [title |-> strip(parts[1]), description |-> strip(parts[2])]

----------------------------------------------------------------------------
(* Inputs *)

\* The one request worker of Spec; Procs are the workers of the server.
Procs == {1, 2}
SeqProcs == {1}

\* Uploaded file names: "a" (no extension), "a.jpg", "a.json" (the name of
\* the sidecar of the other two) and "b.jpg".
Filenames == {
    <<"a">>,
    <<"a", ".", "j", "p", "g">>,
    <<"a", ".", "j", "s", "o", "n">>,
    <<"b", ".", "j", "p", "g">> }

\* Image contents; none of them is JSON text.
Bytes == { <<"x">>, <<"y">> }

\* Response texts of the generate call: "A. B", "B" and a text with the
\* characters json.dump escapes.
RespTexts == {
    <<"A", ".", " ", "B">>,
    <<"B">>,
    <<Quote, ".", " ", "A", "\n", Backslash>> }

\* Every key a request can name: the file names and their sidecars.
Keys == Filenames \cup { json_filename(f) : f \in Filenames }

----------------------------------------------------------------------------
(* The bucket *)

\* blob.exists()
exists(s, key) == key \in DOMAIN s

\* upload_blob: the blob named destination_blob gets the file's content.
upload_blob(s, destination_blob, content) ==
    [k \in DOMAIN s \cup {destination_blob} |->
        IF k = destination_blob THEN content ELSE s[k]]

\* download_blob: None for a missing blob, else the downloaded content.
download_blob(s, source_blob_name) ==
    IF ~exists(s, source_blob_name) THEN <<>> ELSE <<s[source_blob_name]>>

\* list_blobs that forgets the ".jpeg" suffix.
list_blobs_jpg_only(s) == { name \in DOMAIN s : endswith(name, DotJpg) }

\* list_blobs: the names ending in ".jpeg" or ".jpg".
list_blobs(s) ==
    { name \in DOMAIN s : endswith(name, DotJpeg) \/ endswith(name, DotJpg) }

----------------------------------------------------------------------------
(* Requests *)

IdleReq == [
    pc |-> "idle", kind |-> "none",
    hasFile |-> FALSE, filename |-> <<>>, bytes |-> <<>>,
    caption |-> <<>>, result |-> <<>>, listing |-> {},
    outcome |-> "none",
    imagePut |-> "none", assetUpload |-> "none",
    generate |-> "none", sidecarPut |-> "none",
    body |-> <<>>, temps |-> {},
    imageOrder |-> 0, sidecarOrder |-> 0,
    prev |-> <<>>,
    store0 |-> <<>> ]

\* The position of a put among the puts of the requests in progress:
\* orders are the positions taken so far.
NextOrder(orders) == 1 + CHOOSE m \in orders : \A n \in orders : n <= m

Init ==
    /\ store = <<>>
    /\ req = [p \in Procs |-> IdleReq]
    /\ lastIngest = <<>>
    /\ ptext = <<>>
    /\ pcap = <<>>

\* A POST /upload arrives, with or without a file in form_file.  prev is
\* the upload completed just before it, if any.
RequestUpload(p) ==
    /\ req[p].pc = "idle"
    /\ \E hasFile \in BOOLEAN, filename \in Filenames, bytes \in Bytes :
        req' = [req EXCEPT ![p] = [IdleReq EXCEPT
            !.pc = "upload", !.kind = "upload",
            !.hasFile = hasFile,
            !.filename = IF hasFile THEN filename ELSE <<>>,
            !.bytes = IF hasFile THEN bytes ELSE <<>>,
            !.prev = IF hasFile /\ lastIngest # <<>>
                     THEN <<[filename |-> lastIngest[1].filename,
                             caption |-> lastIngest[1].caption]>>
                     ELSE <<>>,
            !.store0 = store]]
    /\ lastIngest' = <<>>
    /\ UNCHANGED <<store, ptext, pcap>>

\* A GET /view/<filename> arrives.
RequestView(p) ==
    /\ req[p].pc = "idle"
    /\ \E filename \in Keys :
        req' = [req EXCEPT ![p] = [IdleReq EXCEPT
            !.pc = "view", !.kind = "view",
            !.filename = filename, !.store0 = store]]
    /\ UNCHANGED <<store, lastIngest, ptext, pcap>>

\* A GET /files/<filename> or a GET /json/<filename> arrives.
RequestFile(p) ==
    /\ req[p].pc = "idle"
    /\ \E filename \in Keys, kind \in {"file", "json"} :
        req' = [req EXCEPT ![p] = [IdleReq EXCEPT
            !.pc = kind, !.kind = kind,
            !.filename = filename, !.store0 = store]]
    /\ lastIngest' = <<>>
    /\ UNCHANGED <<store, ptext, pcap>>

\* A GET / arrives.
RequestIndex(p) ==
    /\ req[p].pc = "idle"
    /\ req' = [req EXCEPT ![p] = [IdleReq EXCEPT
            !.pc = "index", !.kind = "index", !.store0 = store]]
    /\ lastIngest' = <<>>
    /\ UNCHANGED <<store, ptext, pcap>>

\* upload without the check of lines 138-139.
UploadValidateMissing(p) ==
    /\ req[p].pc = "upload"
    /\ req' = [req EXCEPT ![p] = [@ EXCEPT !.pc = "putImage"]]
    /\ UNCHANGED <<store, lastIngest, ptext, pcap>>

\* upload that calls the captioning client before it has put the image.
UploadValidateSkipsPut(p) ==
    /\ req[p].pc = "upload"
    /\ req' = [req EXCEPT ![p] =
        IF ~req[p].hasFile
        THEN [@ EXCEPT !.pc = "done", !.outcome = "userInputError"]
        ELSE [@ EXCEPT !.pc = "uploadToGemini"]]
    /\ UNCHANGED <<store, lastIngest, ptext, pcap>>

\* upload, lines 137-139: without a file the handler returns at once.
UploadValidate(p) ==
    /\ req[p].pc = "upload"
    /\ req' = [req EXCEPT ![p] =
        IF ~req[p].hasFile
        THEN [@ EXCEPT !.pc = "done", !.outcome = "userInputError"]
        ELSE [@ EXCEPT !.pc = "putImage"]]
    /\ UNCHANGED <<store, lastIngest, ptext, pcap>>

\* upload that swallows the error of the image put and goes on.
UploadPutImageIgnoresError(p) ==
    /\ req[p].pc = "putImage"
    /\ \E ok \in BOOLEAN :
        /\ store' = IF ok
                    THEN upload_blob(store, req[p].filename, req[p].bytes)
                    ELSE store
        /\ req' = [req EXCEPT ![p] = [@ EXCEPT
                !.pc = "uploadToGemini",
                !.imagePut = IF ok THEN "ok" ELSE "fail"]]
    /\ UNCHANGED <<lastIngest, ptext, pcap>>

\* upload, lines 141-144: the image is saved to a temporary file, which is
\* kept (delete=False), and put under key = filename; an error
\* of the put leaves the bucket as it was and ends the request.
UploadPutImage(p) ==
    /\ req[p].pc = "putImage"
    /\ \E ok \in BOOLEAN :
        IF ok
        THEN /\ store' = upload_blob(store, req[p].filename, req[p].bytes)
             /\ req' = [req EXCEPT ![p] = [@ EXCEPT
                    !.pc = "uploadToGemini", !.imagePut = "ok",
                    !.imageOrder =
                        NextOrder({ req[q].imageOrder : q \in Procs }),
                    !.temps = {"temp_img"}]]
        ELSE /\ store' = store
             /\ req' = [req EXCEPT ![p] = [@ EXCEPT
                    !.pc = "done", !.imagePut = "fail",
                    !.temps = {"temp_img"},
                    !.outcome = "serverError"]]
    /\ UNCHANGED <<lastIngest, ptext, pcap>>

\* generate_gemini_caption without the check of lines 83-84: the missing
\* file object makes generate_content raise, and the caption is Error.
UploadToGeminiUnchecked(p) ==
    /\ req[p].pc = "uploadToGemini"
    /\ \E gemini_file \in {"file", "none", "raise"} :
        req' = [req EXCEPT ![p] =
            IF gemini_file = "file"
            THEN [@ EXCEPT !.pc = "generate", !.assetUpload = "ok"]
            ELSE [@ EXCEPT !.pc = "putSidecar", !.assetUpload = "fail",
                           !.caption = <<ErrorCaption>>]]
    /\ UNCHANGED <<store, lastIngest, ptext, pcap>>

\* generate_gemini_caption that goes on to generate_content without a
\* file object.
UploadToGeminiFallsThrough(p) ==
    /\ req[p].pc = "uploadToGemini"
    /\ \E gemini_file \in {"file", "none", "raise"} :
        req' = [req EXCEPT ![p] = [@ EXCEPT
            !.pc = "generate",
            !.assetUpload = IF gemini_file = "file" THEN "ok" ELSE "fail"]]
    /\ UNCHANGED <<store, lastIngest, ptext, pcap>>

\* generate_gemini_caption, lines 82-84, with upload_to_gemini, lines 52-62:
\* an error of genai.upload_file or an empty result gives no file object,
\* and the caption is the Upload Failed one.
UploadToGemini(p) ==
    /\ req[p].pc = "uploadToGemini"
    /\ \E gemini_file \in {"file", "none", "raise"} :
        req' = [req EXCEPT ![p] =
            IF gemini_file = "file"
            THEN [@ EXCEPT !.pc = "generate", !.assetUpload = "ok"]
            ELSE [@ EXCEPT !.pc = "putSidecar", !.assetUpload = "fail",
                           !.caption = <<UploadFailedCaption>>]]
    /\ UNCHANGED <<store, lastIngest, ptext, pcap>>

\* generate_gemini_caption whose except clause returns the Upload Failed
\* caption for every error.
GenerateContentOneSentinel(p) ==
    /\ req[p].pc = "generate"
    /\ \/ \E text \in RespTexts :
            req' = [req EXCEPT ![p] = [@ EXCEPT
                !.pc = "putSidecar", !.generate = "ok",
                !.caption = <<ParseCaption(text)>>]]
       \/ \E raised \in {"generate_content", "text"} :
            req' = [req EXCEPT ![p] = [@ EXCEPT
                !.pc = "putSidecar", !.generate = "fail",
                !.caption = <<UploadFailedCaption>>]]
    /\ UNCHANGED <<store, lastIngest, ptext, pcap>>

\* generate_gemini_caption without the try of lines 66 and 102-104: an
\* error of the generate call ends the request.
GenerateContentPropagates(p) ==
    /\ req[p].pc = "generate"
    /\ \/ \E text \in RespTexts :
            req' = [req EXCEPT ![p] = [@ EXCEPT
                !.pc = "putSidecar", !.generate = "ok",
                !.caption = <<ParseCaption(text)>>]]
       \/ \E raised \in {"generate_content", "text"} :
            req' = [req EXCEPT ![p] = [@ EXCEPT
                !.pc = "done", !.generate = "fail",
                !.outcome = "serverError"]]
    /\ UNCHANGED <<store, lastIngest, ptext, pcap>>

\* generate_gemini_caption, lines 86-104: generate_content or response.text
\* may raise, which the except clause turns into the Error caption.
GenerateContent(p) ==
    /\ req[p].pc = "generate"
    /\ \/ \E text \in RespTexts :
            req' = [req EXCEPT ![p] = [@ EXCEPT
                !.pc = "putSidecar", !.generate = "ok",
                !.caption = <<ParseCaption(text)>>]]
       \/ \E raised \in {"generate_content", "text"} :
            req' = [req EXCEPT ![p] = [@ EXCEPT
                !.pc = "putSidecar", !.generate = "fail",
                !.caption = <<ErrorCaption>>]]
    /\ UNCHANGED <<store, lastIngest, ptext, pcap>>

\* upload, lines 146-157: the caption is dumped as JSON and put under the
\* sidecar key; an error of the put ends the request with the error.
UploadPutSidecar(p) ==
    /\ req[p].pc = "putSidecar"
    /\ LET metadata == req[p].caption[1]
       IN  \E ok \in BOOLEAN :
        IF ok
        THEN /\ store' = upload_blob(store, json_filename(req[p].filename),
                                     json_dump(metadata))
             /\ req' = [req EXCEPT ![p] = [@ EXCEPT
                    !.pc = "done", !.sidecarPut = "ok",
                    !.sidecarOrder =
                        NextOrder({ req[q].sidecarOrder : q \in Procs }),
                    !.temps = @ \cup {"temp_json"},
                    !.outcome = "ok", !.result = <<metadata>>]]
             /\ lastIngest' = <<[filename |-> req[p].filename,
                                 bytes |-> req[p].bytes,
                                 caption |-> metadata,
                                 generate |-> req[p].generate,
                                 prev |-> req[p].prev]>>
        ELSE /\ store' = store
             /\ req' = [req EXCEPT ![p] = [@ EXCEPT
                    !.pc = "done", !.sidecarPut = "fail",
                    !.temps = @ \cup {"temp_json"},
                    !.outcome = "serverError"]]
             /\ lastIngest' = lastIngest
    /\ UNCHANGED <<ptext, pcap>>

\* view_file that treats a missing sidecar as an error.
view_file_strict(p) ==
    /\ req[p].pc = "view"
    /\ LET json_name == json_filename(req[p].filename)
           result == download_blob(store, json_name)
           loaded == IF result # <<>> THEN json_load(result[1]) ELSE <<>>
       IN  req' = [req EXCEPT ![p] =
            IF loaded = <<>>
            THEN [@ EXCEPT !.pc = "done", !.outcome = "serverError"]
            ELSE [@ EXCEPT !.pc = "done", !.outcome = "ok",
                           !.result = loaded]]
    /\ UNCHANGED <<store, lastIngest, ptext, pcap>>

\* view_file that stores the default metadata as the missing sidecar.
view_file_writes_default(p) ==
    /\ req[p].pc = "view"
    /\ LET json_name == json_filename(req[p].filename)
           result == download_blob(store, json_name)
           loaded == IF result # <<>> THEN json_load(result[1]) ELSE <<>>
       IN  /\ req' = [req EXCEPT ![p] =
                IF result # <<>> /\ loaded = <<>>
                THEN [@ EXCEPT !.pc = "done", !.outcome = "serverError"]
                ELSE [@ EXCEPT !.pc = "done", !.outcome = "ok",
                        !.result = IF result # <<>> THEN loaded
                                   ELSE <<DefaultMetadata>>]]
           /\ store' = IF result = <<>>
                       THEN upload_blob(store, json_name,
                                        json_dump(DefaultMetadata))
                       ELSE store
    /\ UNCHANGED <<lastIngest, ptext, pcap>>

\* view_file, lines 186-211: the sidecar is downloaded to a temporary file,
\* which is kept (delete=False), and parsed; without a sidecar the default
\* metadata is shown; json.load may raise.
view_file(p) ==
    /\ req[p].pc = "view"
    /\ LET json_name == json_filename(req[p].filename)
           result == download_blob(store, json_name)
           loaded == IF result # <<>> THEN json_load(result[1]) ELSE <<>>
       IN  req' = [req EXCEPT ![p] =
            IF result # <<>> /\ loaded = <<>>
            THEN [@ EXCEPT !.pc = "done", !.outcome = "serverError",
                           !.temps = {"temp_json"}]
            ELSE [@ EXCEPT !.pc = "done", !.outcome = "ok",
                    !.temps = {"temp_json"},
                    !.result = IF result # <<>> THEN loaded
                               ELSE <<DefaultMetadata>>]]
    /\ UNCHANGED <<store, lastIngest, ptext, pcap>>

\* get_json_file that looks for the sidecar of the name it is given.
get_json_file_of_stem(p) ==
    /\ req[p].pc = "json"
    /\ LET result == download_blob(store, json_filename(req[p].filename))
       IN  req' = [req EXCEPT ![p] =
            IF result # <<>>
            THEN [@ EXCEPT !.pc = "done", !.outcome = "ok",
                           !.temps = {"temp_file"}, !.body = result]
            ELSE [@ EXCEPT !.pc = "done", !.outcome = "notFound",
                           !.temps = {"temp_file"}]]
    /\ UNCHANGED <<store, lastIngest, ptext, pcap>>

\* get_file, lines 159-167: the blob is downloaded to a temporary file and
\* sent; a missing blob gives the 404 page.
get_file(p) ==
    /\ req[p].pc = "file"
    /\ LET result == download_blob(store, req[p].filename)
       IN  req' = [req EXCEPT ![p] =
            IF result # <<>>
            THEN [@ EXCEPT !.pc = "done", !.outcome = "ok",
                           !.temps = {"temp_file"}, !.body = result]
            ELSE [@ EXCEPT !.pc = "done", !.outcome = "notFound",
                           !.temps = {"temp_file"}]]
    /\ UNCHANGED <<store, lastIngest, ptext, pcap>>

\* get_json_file, lines 169-177: as get_file, with a JSON 404 body.
get_json_file(p) ==
    /\ req[p].pc = "json"
    /\ LET result == download_blob(store, req[p].filename)
       IN  req' = [req EXCEPT ![p] =
            IF result # <<>>
            THEN [@ EXCEPT !.pc = "done", !.outcome = "ok",
                           !.temps = {"temp_file"}, !.body = result]
            ELSE [@ EXCEPT !.pc = "done", !.outcome = "notFound",
                           !.temps = {"temp_file"}]]
    /\ UNCHANGED <<store, lastIngest, ptext, pcap>>

\* index, lines 128-132: the page lists list_blobs(BUCKET_NAME).
index(p) ==
    /\ req[p].pc = "index"
    /\ req' = [req EXCEPT ![p] = [@ EXCEPT
            !.pc = "done", !.outcome = "ok", !.listing = list_blobs(store)]]
    /\ UNCHANGED <<store, lastIngest, ptext, pcap>>

\* The response is sent and the worker takes the next request.
Respond(p) ==
    /\ req[p].pc = "done"
    /\ req' = [req EXCEPT ![p] = IdleReq]
    /\ lastIngest' = IF req[p].kind = "upload" THEN lastIngest ELSE <<>>
    /\ UNCHANGED <<store, ptext, pcap>>

Next ==
    \E p \in SeqProcs :
        \/ RequestUpload(p)
        \/ RequestView(p)
        \/ RequestIndex(p)
        \/ UploadValidate(p)
        \/ UploadPutImage(p)
        \/ UploadToGemini(p)
        \/ GenerateContent(p)
        \/ UploadPutSidecar(p)
        \/ view_file(p)
        \/ index(p)
        \/ RequestFile(p)
        \/ get_file(p)
        \/ get_json_file(p)
        \/ Respond(p)

Spec == Init /\ [][Next]_vars

----------------------------------------------------------------------------
(* Two uploads handled at the same time *)

\* Each of the two workers handles one upload; their steps interleave.
NextConc ==
    \E p \in Procs :
        \/ RequestUpload(p)
        \/ UploadValidate(p)
        \/ UploadPutImage(p)
        \/ UploadToGemini(p)
        \/ GenerateContent(p)
        \/ UploadPutSidecar(p)

SpecConc == Init /\ [][NextConc]_vars

----------------------------------------------------------------------------
(* The listing on every set of stored names *)

\* "a.jpg", "b.png", "c.jpeg", "d.txt", "a.JPG", "a.json", "jpg", ".jpg",
\* "a.jpg.txt", "e.JPEG".
ListNames == {
    <<"a", ".", "j", "p", "g">>,
    <<"b", ".", "p", "n", "g">>,
    <<"c", ".", "j", "p", "e", "g">>,
    <<"d", ".", "t", "x", "t">>,
    <<"a", ".", "J", "P", "G">>,
    <<"a", ".", "j", "s", "o", "n">>,
    <<"j", "p", "g">>,
    <<".", "j", "p", "g">>,
    <<"a", ".", "j", "p", "g", ".", "t", "x", "t">>,
    <<"e", ".", "J", "P", "E", "G">> }

\* The bucket holds any of the names, left there by earlier uploads.
InitList ==
    /\ \E names \in SUBSET ListNames : store = [k \in names |-> <<"x">>]
    /\ req = [p \in Procs |-> IdleReq]
    /\ lastIngest = <<>>
    /\ ptext = <<>>
    /\ pcap = <<>>

NextList ==
    \E p \in SeqProcs :
        \/ RequestIndex(p)
        \/ index(p)
        \/ Respond(p)

SpecList == InitList /\ [][NextList]_vars

----------------------------------------------------------------------------
(* The caption parser on every text of bounded length *)

Chars == {"A", ".", " ", "\n", Quote, Backslash}

TextsUpTo(n) == UNION { [1..k -> Chars] : k \in 0..n }

InitParse ==
    /\ store = <<>>
    /\ req = [p \in Procs |-> IdleReq]
    /\ lastIngest = <<>>
    /\ ptext \in TextsUpTo(MaxLen)
    /\ pcap = <<>>

\* Lines 95-101 applied to the response text.
Parse ==
    /\ pcap = <<>>
    /\ pcap' = <<ParseCaption(ptext)>>
    /\ UNCHANGED <<store, req, lastIngest, ptext>>

NextParse == Parse

SpecParse == InitParse /\ [][NextParse]_vars

----------------------------------------------------------------------------
(* Vocabulary of the properties, stated without the operators of the model *)

\* k ends with suffix.
HasSuffix(k, suffix) ==
    \E n \in 0..Len(k) : k = SubSeq(k, 1, n) \o suffix

\* j is stem(k) + ".json": the stem is k up to its last ".", or all of k.
IsSidecarKeyOf(j, k) ==
    \E n \in 0..Len(k) :
        /\ j = SubSeq(k, 1, n) \o DotJson
        /\ \/ n = Len(k) /\ \A i \in 1..Len(k) : k[i] # "."
           \/ /\ n < Len(k)
              /\ k[n + 1] = "."
              /\ \A i \in (n + 2)..Len(k) : k[i] # "."

\* t is s without its leading and trailing whitespace.
IsTrimOf(t, s) ==
    \E i \in 1..(Len(s) + 1), j \in 0..Len(s) :
        /\ t = SubSeq(s, i, j)
        /\ \A m \in 1..(i - 1) : s[m] \in Whitespace
        /\ \A m \in (j + 1)..Len(s) : s[m] \in Whitespace
        /\ t # <<>> => t[1] \notin Whitespace /\ t[Len(t)] \notin Whitespace

\* The first ". " of t starts at position k.
FirstDelimiterAt(t, k) ==
    /\ k \in 1..(Len(t) - 1)
    /\ t[k] = "." /\ t[k + 1] = " "
    /\ \A m \in 1..(k - 1) : ~(t[m] = "." /\ t[m + 1] = " ")

HasDelimiter(t) == \E k \in 1..(Len(t) - 1) : FirstDelimiterAt(t, k)

\* The text json.dumps gives for the two fallback captions.
UploadFailedSidecarText == <<"{", "\"", "t", "i", "t", "l", "e", "\"", ":", " ", "\"", "U", "p", "l", "o", "a", "d", " ", "F", "a", "i", "l", "e", "d", "\"", ",", " ", "\"", "d", "e", "s", "c", "r", "i", "p", "t", "i", "o", "n", "\"", ":", " ", "\"", "C", "o", "u", "l", "d", " ", "n", "o", "t", " ", "g", "e", "n", "e", "r", "a", "t", "e", " ", "d", "e", "s", "c", "r", "i", "p", "t", "i", "o", "n", " ", "d", "u", "e", " ", "t", "o", " ", "u", "p", "l", "o", "a", "d", " ", "e", "r", "r", "o", "r", ".", "\"", "}">>
ErrorSidecarText == <<"{", "\"", "t", "i", "t", "l", "e", "\"", ":", " ", "\"", "E", "r", "r", "o", "r", "\"", ",", " ", "\"", "d", "e", "s", "c", "r", "i", "p", "t", "i", "o", "n", "\"", ":", " ", "\"", "A", "n", " ", "e", "r", "r", "o", "r", " ", "o", "c", "c", "u", "r", "r", "e", "d", " ", "w", "h", "i", "l", "e", " ", "g", "e", "n", "e", "r", "a", "t", "i", "n", "g", " ", "t", "h", "e", " ", "d", "e", "s", "c", "r", "i", "p", "t", "i", "o", "n", ".", "\"", "}">>

\* The sidecar key of the request of p holds exactly text.
SidecarHolds(p, text) ==
    \E j \in DOMAIN store :
        IsSidecarKeyOf(j, req[p].filename) /\ store[j] = text

UploadDone(p) == req[p].kind = "upload" /\ req[p].pc = "done"

ViewDone(p) == req[p].kind = "view" /\ req[p].pc = "done"

----------------------------------------------------------------------------
(* Properties *)

\* C1: when the captioning service succeeds and yields the caption (T, D),
\* a completed upload of a file followed at once by a view of the same file
\* name returns title = T and description = D.
C1_IngestThenView ==
    \A p \in Procs :
        (/\ ViewDone(p)
         /\ lastIngest # <<>>
         /\ lastIngest[1].generate = "ok"
         /\ req[p].filename = lastIngest[1].filename)
        => /\ req[p].outcome = "ok"
           /\ req[p].result = <<lastIngest[1].caption>>

\* Reached: such a view has returned a title that json.dump had to escape.
C1_Witness ==
    \E p \in Procs :
        /\ ViewDone(p)
        /\ lastIngest # <<>>
        /\ lastIngest[1].generate = "ok"
        /\ req[p].filename = lastIngest[1].filename
        /\ req[p].result = <<lastIngest[1].caption>>
        /\ lastIngest[1].caption.title = <<Quote>>

\* C2: when the asset upload to the captioning service fails, the upload
\* request is not aborted by it: it goes on to the sidecar put without a
\* generate call, and, the put being accepted, it completes with the
\* sidecar key holding exactly the Upload Failed caption.
C2_UploadFailureSentinel ==
    \A p \in Procs :
        req[p].assetUpload = "fail" =>
            /\ req[p].generate = "none"
            /\ \/ req[p].pc = "putSidecar"
               \/ /\ UploadDone(p)
                  /\ req[p].sidecarPut = "fail"
                  /\ req[p].outcome = "serverError"
               \/ /\ UploadDone(p)
                  /\ req[p].sidecarPut = "ok"
                  /\ req[p].outcome = "ok"
                  /\ SidecarHolds(p, UploadFailedSidecarText)

\* Reached: an upload whose asset upload failed has completed.
C2_Witness ==
    \E p \in Procs :
        /\ UploadDone(p)
        /\ req[p].assetUpload = "fail"
        /\ req[p].outcome = "ok"
        /\ SidecarHolds(p, UploadFailedSidecarText)

\* C3: when the asset upload succeeds but the generate call or the reading
\* of its response fails, the upload request is not aborted by it, and, the
\* sidecar put being accepted, it completes with the sidecar key holding
\* exactly the Error caption.
C3_GenerateFailureSentinel ==
    \A p \in Procs :
        req[p].generate = "fail" =>
            /\ req[p].assetUpload = "ok"
            /\ \/ req[p].pc = "putSidecar"
               \/ /\ UploadDone(p)
                  /\ req[p].sidecarPut = "fail"
                  /\ req[p].outcome = "serverError"
               \/ /\ UploadDone(p)
                  /\ req[p].sidecarPut = "ok"
                  /\ req[p].outcome = "ok"
                  /\ SidecarHolds(p, ErrorSidecarText)

\* Reached: an upload whose generate call failed has completed.
C3_Witness ==
    \E p \in Procs :
        /\ UploadDone(p)
        /\ req[p].generate = "fail"
        /\ req[p].outcome = "ok"
        /\ SidecarHolds(p, ErrorSidecarText)

\* C4: whatever the outcomes of the asset upload and of the generate call,
\* the captioning client hands the upload handler a caption with a title
\* and a description, and the handler goes on to the sidecar put: a request
\* ends in an error only through a failed blob put.
C4_CaptionAlwaysReturned ==
    \A p \in Procs :
        req[p].kind = "upload" =>
            /\ (req[p].assetUpload = "fail" \/ req[p].generate # "none") =>
                /\ req[p].pc \in {"putSidecar", "done"}
                /\ Len(req[p].caption) = 1
                /\ DOMAIN req[p].caption[1] = {"title", "description"}
                /\ req[p].pc = "done" => req[p].sidecarPut # "none"
            /\ req[p].outcome = "serverError" =>
                req[p].imagePut = "fail" \/ req[p].sidecarPut = "fail"

\* Reached: the generate call has failed and the handler is at the sidecar
\* put with a caption.
C4_Witness ==
    \E p \in Procs :
        /\ req[p].pc = "putSidecar"
        /\ req[p].generate = "fail"
        /\ Len(req[p].caption) = 1

\* C5: when the put of the image fails, the request ends with an error,
\* the captioning service has not been called, no sidecar has been put, and
\* the bucket is as it was before the request.
C5_ImagePutFailureAborts ==
    \A p \in Procs :
        req[p].imagePut = "fail" =>
            /\ UploadDone(p)
            /\ req[p].outcome = "serverError"
            /\ req[p].assetUpload = "none"
            /\ req[p].generate = "none"
            /\ req[p].sidecarPut = "none"
            /\ store = req[p].store0

\* Reached: the image put has failed on a bucket that holds blobs.
C5_Witness ==
    \E p \in Procs :
        /\ req[p].imagePut = "fail"
        /\ req[p].pc = "done"
        /\ store = req[p].store0
        /\ DOMAIN store # {}

\* C6: when the sidecar put fails after the image put succeeded, the error
\* is surfaced, the image stays under key = filename with the uploaded
\* bytes, and the sidecar key has the content it had before the request.
C6_SidecarPutFailureKeepsSidecar ==
    \A p \in Procs :
        (req[p].imagePut = "ok" /\ req[p].sidecarPut = "fail") =>
            /\ req[p].outcome = "serverError"
            /\ req[p].filename \in DOMAIN store
            /\ store[req[p].filename] = req[p].bytes
            /\ \A j \in Keys :
                IsSidecarKeyOf(j, req[p].filename) =>
                    /\ j \in DOMAIN store <=> j \in DOMAIN req[p].store0
                    /\ j \in DOMAIN store => store[j] = req[p].store0[j]

\* C7: an upload request without a file ends with the user-input error and
\* does nothing else: no blob put, no call of the captioning service, and
\* the bucket is as it was before the request.
C7_NoFileNoAction ==
    \A p \in Procs :
        (req[p].kind = "upload" /\ ~req[p].hasFile /\ req[p].pc # "upload") =>
            /\ req[p].pc = "done"
            /\ req[p].outcome = "userInputError"
            /\ req[p].imagePut = "none"
            /\ req[p].assetUpload = "none"
            /\ req[p].generate = "none"
            /\ req[p].sidecarPut = "none"
            /\ store = req[p].store0

\* Reached: a request without a file has ended on a bucket that holds blobs.
C7_Witness ==
    \E p \in Procs :
        /\ UploadDone(p)
        /\ ~req[p].hasFile
        /\ req[p].outcome = "userInputError"
        /\ DOMAIN store # {}

\* C8: a view of a key whose sidecar key is absent from the bucket returns
\* the default title and description as a normal result, whether or not
\* the image blob exists.
C8_MissingSidecarDefault ==
    \A p \in Procs :
        (ViewDone(p)
         /\ \A j \in DOMAIN store : ~IsSidecarKeyOf(j, req[p].filename))
        => /\ req[p].outcome = "ok"
           /\ req[p].result =
                <<[title |-> NoTitle, description |-> NoDescription]>>

\* Reached: such a view of a key whose image blob exists.
C8_Witness ==
    \E p \in Procs :
        /\ ViewDone(p)
        /\ \A j \in DOMAIN store : ~IsSidecarKeyOf(j, req[p].filename)
        /\ req[p].filename \in DOMAIN store
        /\ req[p].outcome = "ok"

C10_SplitAsStated ==
    pcap # <<>> =>
        \E t \in { SubSeq(ptext, i, j) :
                    i \in 1..(Len(ptext) + 1), j \in 0..Len(ptext) } :
            /\ IsTrimOf(t, ptext)
            /\ IF HasDelimiter(t)
               THEN \E k \in 1..(Len(t) - 1) :
                        /\ FirstDelimiterAt(t, k)
                        /\ pcap[1].title = SubSeq(t, 1, k - 1)
                        /\ pcap[1].description = SubSeq(t, k + 2, Len(t))
               ELSE /\ pcap[1].title = GeneratedTitle
                    /\ pcap[1].description = t

\* C10, amended: with t the trimmed response text, if t contains ". " the
\* title is the text before its first occurrence and the description the
\* text after it, each with its own leading and trailing whitespace
\* removed; otherwise the title is "Generated Title" and the description
\* is t.
C10_SplitTrimmed ==
    pcap # <<>> =>
        \E t \in { SubSeq(ptext, i, j) :
                    i \in 1..(Len(ptext) + 1), j \in 0..Len(ptext) } :
            /\ IsTrimOf(t, ptext)
            /\ IF HasDelimiter(t)
               THEN \E k \in 1..(Len(t) - 1) :
                        /\ FirstDelimiterAt(t, k)
                        /\ IsTrimOf(pcap[1].title, SubSeq(t, 1, k - 1))
                        /\ IsTrimOf(pcap[1].description,
                                    SubSeq(t, k + 2, Len(t)))
               ELSE /\ pcap[1].title = GeneratedTitle
                    /\ pcap[1].description = t

\* Reached: "A\n. A" has been split into "A" and "A", the title trimmed.
C10_Witness ==
    /\ pcap # <<>>
    /\ ptext = <<"A", "\n", ".", " ", "A">>
    /\ pcap[1] = [title |-> <<"A">>, description |-> <<"A">>]

\* The bucket after the upload of p alone on an empty bucket.
AloneStore(p) ==
    upload_blob(upload_blob(<<>>, req[p].filename, req[p].bytes),
                json_filename(req[p].filename),
                json_dump(req[p].caption[1]))

BothUploaded == \A p \in Procs : UploadDone(p) /\ req[p].outcome = "ok"

\* The worker whose image put, or sidecar put, came last.
LastImagePut ==
    CHOOSE p \in Procs : \A q \in Procs : req[q].imageOrder <= req[p].imageOrder

LastSidecarPut ==
    CHOOSE p \in Procs :
        \A q \in Procs : req[q].sidecarOrder <= req[p].sidecarOrder

ReadKinds == {"view", "file", "json", "index"}

\* C11: when two uploads of different file names, handled at the same
\* time, have both completed, the blob and the sidecar of each file name
\* are what its upload alone would have left.
C11_DifferentNamesIndependent ==
    (BothUploaded /\ req[1].filename # req[2].filename) =>
        \A p \in Procs :
            \A k \in DOMAIN AloneStore(p) :
                k \in DOMAIN store /\ store[k] = AloneStore(p)[k]

\* C12: when two uploads of the same file name, handled at the same time,
\* have both completed, the blob under the file name holds the bytes of
\* the image put that came last and the sidecar holds the caption of the
\* sidecar put that came last.
C12_SameNameLastPutWins ==
    (BothUploaded /\ req[1].filename = req[2].filename) =>
        /\ req[1].filename \in DOMAIN store
        /\ store[req[1].filename] = req[LastImagePut].bytes
        /\ \E j \in DOMAIN store :
            /\ IsSidecarKeyOf(j, req[1].filename)
            /\ json_load(store[j]) = req[LastSidecarPut].caption

\* C13: when a view request has finished, on any exit path, no temporary
\* file it created is left.
C13_ViewTempFilesDeleted ==
    \A p \in Procs : ViewDone(p) => req[p].temps = {}

\* C14: after two uploads of the same file name, completed one after the
\* other, the blob under the file name holds the bytes of the second and a
\* view of the file name returns the caption of the second.
C14_SecondUploadOverwrites ==
    \A p \in Procs :
        (/\ ViewDone(p)
         /\ lastIngest # <<>>
         /\ lastIngest[1].prev # <<>>
         /\ lastIngest[1].prev[1].filename = lastIngest[1].filename
         /\ req[p].filename = lastIngest[1].filename)
        => /\ req[p].filename \in DOMAIN store
           /\ store[req[p].filename] = lastIngest[1].bytes
           /\ req[p].outcome = "ok"
           /\ req[p].result = <<lastIngest[1].caption>>

\* C15: the raw-file and the JSON-metadata endpoints answer a key that is
\* absent from the bucket with the not-found outcome, and a key that is
\* present with the content stored under exactly that key.
C15_FileEndpoints ==
    \A p \in Procs :
        (req[p].kind \in {"file", "json"} /\ req[p].pc = "done") =>
            IF req[p].filename \in DOMAIN store
            THEN /\ req[p].outcome = "ok"
                 /\ req[p].body = <<store[req[p].filename]>>
            ELSE /\ req[p].outcome = "notFound"
                 /\ req[p].body = <<>>

\* Reached: the JSON-metadata endpoint, asked for the key of an image whose
\* sidecar exists too, has returned the image blob.
C15_Witness ==
    \E p \in Procs, j \in DOMAIN store :
        /\ req[p].kind = "json" /\ req[p].pc = "done"
        /\ req[p].outcome = "ok"
        /\ req[p].body = <<store[req[p].filename]>>
        /\ j # req[p].filename
        /\ IsSidecarKeyOf(j, req[p].filename)

\* C16: within an upload the image put has succeeded before the asset
\* upload is made, the generate call is made only after the asset upload,
\* and the sidecar put only after the captioning client has returned its
\* caption.
C16_StepOrder ==
    \A p \in Procs :
        /\ (req[p].pc = "uploadToGemini" \/ req[p].assetUpload # "none") =>
            req[p].imagePut = "ok"
        /\ (req[p].pc = "generate" \/ req[p].generate # "none") =>
            req[p].assetUpload # "none"
        /\ (req[p].pc = "putSidecar" \/ req[p].sidecarPut # "none") =>
            /\ req[p].caption # <<>>
            /\ req[p].assetUpload = "fail" \/ req[p].generate # "none"

\* Reached: an upload has gone through all four steps.
C16_Witness ==
    \E p \in Procs :
        /\ UploadDone(p)
        /\ req[p].imagePut = "ok"
        /\ req[p].assetUpload = "ok"
        /\ req[p].generate = "ok"
        /\ req[p].sidecarPut = "ok"

\* C17: the generate call is made only when the asset upload returned a
\* file object; after a failed asset upload no generate call is made and
\* the caption is the Upload Failed one.
C17_GenerateOnlyWithAsset ==
    \A p \in Procs :
        /\ (req[p].pc = "generate" \/ req[p].generate # "none") =>
            req[p].assetUpload = "ok"
        /\ req[p].assetUpload = "fail" =>
            req[p].caption =
                <<[title |-> UploadFailedTitle,
                   description |-> UploadFailedDescription]>>

\* Reached: the asset upload has failed and the handler is at the sidecar
\* put without a generate call.
C17_Witness ==
    \E p \in Procs :
        /\ req[p].pc = "putSidecar"
        /\ req[p].assetUpload = "fail"
        /\ req[p].generate = "none"

\* C18: after a completed upload, and until the next upload, the blob
\* under key = filename is exactly the uploaded bytes, whatever the file
\* name.
C18_BlobIsUploadedBytes ==
    lastIngest # <<>> =>
        /\ lastIngest[1].filename \in DOMAIN store
        /\ store[lastIngest[1].filename] = lastIngest[1].bytes

\* C19: after completed uploads, one after the other, a view of an
\* uploaded file name returns the caption of the latest upload of that
\* file name, also when a file name that differs from it was uploaded
\* after it.
C19_ViewOwnCaption ==
    \A p \in Procs :
        (ViewDone(p) /\ lastIngest # <<>>) =>
            /\ req[p].filename = lastIngest[1].filename =>
                req[p].result = <<lastIngest[1].caption>>
            /\ (/\ lastIngest[1].prev # <<>>
                /\ lastIngest[1].prev[1].filename # lastIngest[1].filename
                /\ req[p].filename = lastIngest[1].prev[1].filename) =>
                req[p].result = <<lastIngest[1].prev[1].caption>>

\* C20: the view, raw-file, JSON-metadata and listing requests leave the
\* bucket as it was: no key is created, overwritten or removed.
C20_ReadsLeaveStore ==
    \A p \in Procs :
        req[p].kind \in ReadKinds => store = req[p].store0

\* Reached: a view or a raw-file request for a key that is missing, as is
\* its sidecar, has finished on a bucket that holds blobs.
C20_Witness ==
    \E p \in Procs :
        /\ req[p].kind \in {"view", "file"} /\ req[p].pc = "done"
        /\ \A j \in DOMAIN store : ~IsSidecarKeyOf(j, req[p].filename)
        /\ req[p].filename \notin DOMAIN store
        /\ DOMAIN store # {}
        /\ store = req[p].store0

====
